---------------------------- MODULE Spec2Model ----------------------------
(***************************************************************************)
(* A model of streamlit_app.py: the YouTube spread analyzer                *)
(* (search_videos_by_keyword, calculate_spread_coefficient,                *)
(* extract_common_keywords, analyze_keyword_spread) and the Naver trend    *)
(* functions (calculate_absolute_index, calculate_bti,                     *)
(* calculate_combined_index) with the tab2 flow that calls them.           *)
(*                                                                         *)
(* Real numbers are exact rationals [n, d] (d > 0, lowest terms).          *)
(* math.log10 is a fixed-point binary-digit logarithm (LogBits fractional  *)
(* bits), which is exact at powers of ten and monotone, as log10 is.       *)
(* Characters are one-letter strings; Hangul syllables are written         *)
(* romanised ("yeong", "sang", ...).                                       *)
(***************************************************************************)
EXTENDS Integers, Sequences, FiniteSets, TLC

VARIABLES
    \* calculate_spread_coefficient
    sc_videos, sc_result,
    \* search_videos_by_keyword / analyze_keyword_spread
    pc, max_results, remaining_results, next_page_token, video_ids, videos,
    batch_i, returned, outcome, trace, requested, delivered,
    search_failed, details_failed,
    \* extract_common_keywords
    kw_pc, titles, top_n, keywords,
    \* tab2 flow
    trend_pc, days_back, sc_value, main_ratio, ref_data_list, abs_index,
    shown_mean, combined_index

spreadVars == <<sc_videos, sc_result>>
searchVars == <<pc, max_results, remaining_results, next_page_token, video_ids,
                videos, batch_i, returned, outcome, trace, requested, delivered,
                search_failed, details_failed>>
keywordVars == <<kw_pc, titles, top_n, keywords>>
trendVars == <<trend_pc, days_back, sc_value, main_ratio, ref_data_list,
               abs_index, shown_mean, combined_index>>
vars == <<spreadVars, searchVars, keywordVars, trendVars>>
notSpreadVars == <<searchVars, keywordVars, trendVars>>
notSearchVars == <<spreadVars, keywordVars, trendVars>>
notKeywordVars == <<spreadVars, searchVars, trendVars>>
notTrendVars == <<spreadVars, searchVars, keywordVars>>

-----------------------------------------------------------------------------
(* Bounds of the model *)

\* Longest list of video records given to calculate_spread_coefficient.
MaxVideos == 2
\* Fractional binary digits of the fixed-point log10.
LogBits == 8
\* Largest max_results asked of search_videos_by_keyword.
MaxResultsBound == 101
\* Titles given to extract_common_keywords: how many, how long; largest top_n.
MaxTitles == 2
MaxTitleLen == 3
MaxTopN == 2
\* Trend series: largest ratio, most points of the main and of a reference
\* series, most reference series, longest lookback.
MaxRatio == 2
MaxPoints == 3
MaxRefPoints == 2
MaxRefs == 2
MaxDaysBack == 2

-----------------------------------------------------------------------------
(* Exact rational arithmetic: Python's float operators, without rounding *)

RECURSIVE GCD(_, _)
GCD(a, b) == IF b = 0 THEN a ELSE GCD(b, a % b)

Max(a, b) == IF a >= b THEN a ELSE b

Min(a, b) == IF a <= b THEN a ELSE b

\* n / d in lowest terms (n >= 0, d > 0).
Rat(n, d) ==
    LET g == GCD(n, d)
    IN  [n |-> n \div g, d |-> d \div g]

RInt(k) == [n |-> k, d |-> 1]

\* a <= b, comparing the integer parts first so that no product overflows.
RLe(a, b) ==
    LET fa == a.n \div a.d
        fb == b.n \div b.d
    IN  \/ fa < fb
        \/ fa = fb /\ (a.n % a.d) * b.d <= (b.n % b.d) * a.d

RLt(a, b) == ~RLe(b, a)

RMin(a, b) == IF RLe(a, b) THEN a ELSE b

RAdd(a, b) ==
    LET l == (a.d \div GCD(a.d, b.d)) * b.d
    IN  Rat(a.n * (l \div a.d) + b.n * (l \div b.d), l)

\* r * k for an integer k >= 0.
RMulInt(r, k) ==
    LET g == GCD(r.d, k)
    IN  IF k = 0 THEN RInt(0) ELSE Rat(r.n * (k \div g), r.d \div g)

\* r / k for an integer k > 0.
RDivInt(r, k) ==
    LET g == GCD(r.n, k)
    IN  IF r.n = 0 THEN RInt(0) ELSE Rat(r.n \div g, r.d * (k \div g))

-----------------------------------------------------------------------------
(* math.log10, in fixed point *)

\* The mantissa keeps three decimal digits (Mantissa divides by 10^(k-3)):
\* its square stays within 32-bit integers.
LogScale == 10 ^ 3

Pow2(k) == 2 ^ k

\* The largest k with 10^k <= x, for a rational x >= 1.
RECURSIVE Decade(_, _)
Decade(x, k) ==
    IF RLe(RInt(10 ^ (k + 1)), x) THEN Decade(x, k + 1) ELSE k

\* floor(LogScale * x / 10^k): the mantissa of x, in [LogScale, 10 * LogScale).
Mantissa(x, k) ==
    IF k >= 3
    THEN x.n \div (x.d * 10 ^ (k - 3))
    ELSE (x.n * 10 ^ (3 - k)) \div x.d

\* The first i binary digits of log10 of the mantissa y: square, and take a
\* digit (dividing by ten) whenever the square reaches ten.
RECURSIVE FractionBits(_, _, _)
FractionBits(y, i, acc) ==
    LET y2 == (y * y) \div LogScale
    IN  IF i = 0 THEN acc
        ELSE IF y2 >= 10 * LogScale
             THEN FractionBits(y2 \div 10, i - 1, 2 * acc + 1)
             ELSE FractionBits(y2, i - 1, 2 * acc)

\* log10(x) in units of 2^-LogBits, for a rational x >= 1.
Log10(x) ==
    LET k == Decade(x, 0)
    IN  k * Pow2(LogBits) + FractionBits(Mantissa(x, k), LogBits, 0)

-----------------------------------------------------------------------------
(* YouTubeSpreadAnalyzer.calculate_spread_coefficient *)

LowViews == 1000
SaturationViews == 5000000
EngagementCap == Rat(45, 100)

Video(v, l, c) == [viewCount |-> v, likeCount |-> l, commentCount |-> c]

\* The video records the calls draw from: no views, an engagement over the
\* cap, both thresholds, values between them and beyond saturation.
VideoRecords ==
    { Video(0, 5, 0), Video(100, 200, 0), Video(1000, 0, 0),
      Video(1000, 100, 0), Video(1001, 0, 0), Video(30000, 3000, 600),
      Video(70711, 0, 0), Video(4999999, 0, 1), Video(5000000, 0, 0),
      Video(6000000, 9000000, 9000000) }

VideoLists == UNION { [1..n -> VideoRecords] : n \in 0..MaxVideos }

Engagement_NoCap(video) ==
    IF video.viewCount > 0
    THEN Rat(video.likeCount + video.commentCount, video.viewCount)
    ELSE RInt(0)

Engagement(video) ==
    IF video.viewCount > 0
    THEN RMin(EngagementCap,
              Rat(video.likeCount + video.commentCount, video.viewCount))
    ELSE RInt(0)

WeightedViews(video) ==
    RMulInt(RAdd(RInt(1), Engagement(video)), video.viewCount)

RECURSIVE TotalWeighted(_)
TotalWeighted(vs) ==
    IF vs = <<>> THEN RInt(0)
    ELSE RAdd(TotalWeighted(SubSeq(vs, 1, Len(vs) - 1)),
              WeightedViews(vs[Len(vs)]))

RECURSIVE TotalViews(_)
TotalViews(vs) ==
    IF vs = <<>> THEN 0
    ELSE TotalViews(SubSeq(vs, 1, Len(vs) - 1)) + vs[Len(vs)].viewCount

\* The log branch: (log10(x) - 3) * (10 / (log10(5_000_000) - 3)).
LogScore(avg_weighted) ==
    Rat((Log10(avg_weighted) - 3 * Pow2(LogBits)) * 10,
        Log10(RInt(SaturationViews)) - 3 * Pow2(LogBits))

SpreadCoefficient_NoSaturation(avg_weighted) ==
    IF RLe(avg_weighted, RInt(LowViews)) THEN RInt(0)
    ELSE LogScore(avg_weighted)

SpreadCoefficient_SaturationTypo(avg_weighted) ==
    IF RLe(avg_weighted, RInt(LowViews)) THEN RInt(0)
    ELSE IF RLe(RInt(SaturationViews), avg_weighted) THEN RInt(1)
    ELSE LogScore(avg_weighted)

SpreadCoefficient(avg_weighted) ==
    IF RLe(avg_weighted, RInt(LowViews)) THEN RInt(0)
    ELSE IF RLe(RInt(SaturationViews), avg_weighted) THEN RInt(10)
    ELSE LogScore(avg_weighted)

SpreadResult(sc, aw, tv, av) ==
    [status |-> "returned", spread_coefficient |-> sc, avg_weighted |-> aw,
     total_views |-> tv, avg_views |-> av]

SpreadRaise(e) == [status |-> "raised", error |-> e]

NotCalled == [status |-> "not called"]

\* The body after the guard; Python's / raises on a zero video_count.
Aggregate(vs) ==
    LET video_count == Len(vs)
        total_views == TotalViews(vs)
        total_weighted == TotalWeighted(vs)
    IN  IF video_count = 0 THEN SpreadRaise("ZeroDivisionError")
        ELSE LET avg_views == RDivInt(RInt(total_views), video_count)
                 avg_weighted == RDivInt(total_weighted, video_count)
             IN  SpreadResult(SpreadCoefficient(avg_weighted), avg_weighted,
                              total_views, avg_views)

calculate_spread_coefficient_NoGuard(vs) == Aggregate(vs)

calculate_spread_coefficient(vs) ==
    IF vs = <<>> THEN SpreadResult(RInt(0), RInt(0), 0, RInt(0))
    ELSE Aggregate(vs)

SpreadInit == sc_videos = <<>> /\ sc_result = NotCalled

\* Every call of the function with its result.
SpreadCalls ==
    { <<vs, calculate_spread_coefficient(vs)>> : vs \in VideoLists }

CallSpreadCoefficient ==
    /\ \E call \in SpreadCalls :
           /\ sc_videos' = call[1]
           /\ sc_result' = call[2]
    /\ UNCHANGED notSpreadVars

-----------------------------------------------------------------------------
(* YouTubeSpreadAnalyzer.search_videos_by_keyword and analyze_keyword_spread *)

PageSize == 50
BatchSize == 50

\* Video ids are numbered in the order the search returns them.
NewIds(from, n) == [i \in 1..n |-> from + i]

\* How many video items a page of at most current_max results may hold.
PageItems(current_max) == {0, 1, current_max - 1, current_max} \cap 0..current_max

\* What videos().list answers for a batch: every video, all but the first
\* (a video deleted since the search), or none.
BatchResponses(batch_ids) == {batch_ids, Tail(batch_ids), <<>>}

CurrentMax_NoCap(remaining) == remaining

CurrentMax(remaining) == Min(PageSize, remaining)

SearchInit ==
    /\ max_results \in 0..MaxResultsBound
    /\ remaining_results = max_results
    /\ next_page_token = FALSE
    /\ video_ids = <<>>
    /\ videos = <<>>
    /\ batch_i = 0
    /\ returned = <<>>
    /\ outcome = "none"
    /\ trace = <<>>
    /\ requested = <<>>
    /\ delivered = <<>>
    /\ search_failed = FALSE
    /\ details_failed = FALSE
    /\ pc = "search"

\* One iteration of the while loop whose search().list call succeeds.
SearchPage ==
    /\ pc = "search"
    /\ remaining_results > 0
    /\ LET current_max == CurrentMax(remaining_results)
       IN  \E n \in PageItems(current_max), token \in BOOLEAN :
               /\ requested' = Append(requested, current_max)
               /\ video_ids' = video_ids \o NewIds(Len(video_ids), n)
               /\ next_page_token' = token
               /\ IF ~token
                  THEN /\ trace' = Append(trace, "search")
                       /\ pc' = "count"
                       /\ UNCHANGED remaining_results
                  ELSE /\ remaining_results' = remaining_results - current_max
                       /\ trace' = trace \o <<"search", "sleep">>
                       /\ pc' = "search"
    /\ UNCHANGED <<max_results, videos, batch_i, returned, outcome, delivered,
                   search_failed, details_failed>>
    /\ UNCHANGED notSearchVars

\* The search().list call raises: st.error and break.
SearchPageFails ==
    /\ pc = "search"
    /\ remaining_results > 0
    /\ requested' = Append(requested, CurrentMax(remaining_results))
    /\ trace' = Append(trace, "search")
    /\ search_failed' = TRUE
    /\ pc' = "count"
    /\ UNCHANGED <<max_results, remaining_results, next_page_token, video_ids,
                   videos, batch_i, returned, outcome, delivered, details_failed>>
    /\ UNCHANGED notSearchVars

\* The while condition fails.
SearchLoopEnds ==
    /\ pc = "search"
    /\ remaining_results <= 0
    /\ pc' = "count"
    /\ UNCHANGED <<max_results, remaining_results, next_page_token, video_ids,
                   videos, batch_i, returned, outcome, trace, requested,
                   delivered, search_failed, details_failed>>
    /\ UNCHANGED notSearchVars

\* actual_count = len(video_ids); return [] when it is 0.
CountVideoIds ==
    /\ pc = "count"
    /\ IF Len(video_ids) = 0
       THEN returned' = <<>> /\ pc' = "returned"
       ELSE returned' = returned /\ pc' = "details"
    /\ videos' = <<>>
    /\ batch_i' = 0
    /\ UNCHANGED <<max_results, remaining_results, next_page_token, video_ids,
                   outcome, trace, requested, delivered, search_failed,
                   details_failed>>
    /\ UNCHANGED notSearchVars

\* One iteration of the for loop whose videos().list call succeeds.
DetailsBatch ==
    /\ pc = "details"
    /\ batch_i < Len(video_ids)
    /\ LET batch_ids == SubSeq(video_ids, batch_i + 1,
                               Min(batch_i + BatchSize, Len(video_ids)))
       IN  \E items \in BatchResponses(batch_ids) :
               /\ videos' = videos \o items
               /\ delivered' = delivered \o items
    /\ trace' = trace \o <<"details", "sleep">>
    /\ batch_i' = batch_i + BatchSize
    /\ UNCHANGED <<pc, max_results, remaining_results, next_page_token, video_ids,
                   returned, outcome, requested, search_failed, details_failed>>
    /\ UNCHANGED notSearchVars

DetailsBatchFails_Discard ==
    /\ pc = "details"
    /\ batch_i < Len(video_ids)
    /\ trace' = Append(trace, "details")
    /\ details_failed' = TRUE
    /\ returned' = <<>>
    /\ pc' = "returned"
    /\ UNCHANGED <<max_results, remaining_results, next_page_token, video_ids,
                   videos, batch_i, outcome, requested, delivered, search_failed>>
    /\ UNCHANGED notSearchVars

\* The videos().list call raises: st.error, break, return videos.
DetailsBatchFails ==
    /\ pc = "details"
    /\ batch_i < Len(video_ids)
    /\ trace' = Append(trace, "details")
    /\ details_failed' = TRUE
    /\ returned' = videos
    /\ pc' = "returned"
    /\ UNCHANGED <<max_results, remaining_results, next_page_token, video_ids,
                   videos, batch_i, outcome, requested, delivered, search_failed>>
    /\ UNCHANGED notSearchVars

\* The for loop is exhausted: return videos.
ReturnVideos ==
    /\ pc = "details"
    /\ batch_i >= Len(video_ids)
    /\ returned' = videos
    /\ pc' = "returned"
    /\ UNCHANGED <<max_results, remaining_results, next_page_token, video_ids,
                   videos, batch_i, outcome, trace, requested, delivered,
                   search_failed, details_failed>>
    /\ UNCHANGED notSearchVars

\* analyze_keyword_spread on what the search returned: the error record when
\* there are no videos, the result record otherwise.
AnalyzeKeywordSpread ==
    /\ pc = "returned"
    /\ outcome' = IF returned = <<>> THEN "error: no videos found" ELSE "result"
    /\ pc' = "done"
    /\ UNCHANGED <<max_results, remaining_results, next_page_token, video_ids,
                   videos, batch_i, returned, trace, requested, delivered,
                   search_failed, details_failed>>
    /\ UNCHANGED notSearchVars

-----------------------------------------------------------------------------
(* YouTubeSpreadAnalyzer.extract_common_keywords *)

HangulSyllables ==
    {"yeong", "sang", "chu", "cheon", "bi", "di", "oh", "bo", "gi", "choe",
     "sin", "in", "geup", "seung", "gong", "gae", "pul", "beo", "jeon", "sik"}

LatinLetters == {"a", "Y", "o", "u", "t", "T", "b", "e"}

\* \w: letters of any script, digits and the underscore.
IsWordChar(c) == c \in HangulSyllables \cup LatinLetters \cup {"7", "_"}

\* [\w#]
IsTokenChar(c) == IsWordChar(c) \/ c = "#"

stop_words ==
    << <<"yeong", "sang">>, <<"chu", "cheon">>, <<"bi", "di", "oh">>,
       <<"Y", "o", "u", "t", "u", "b", "e">>, <<"Y", "o", "u", "T", "u", "b", "e">>,
       <<"bo", "gi">>, <<"choe", "sin">>, <<"in", "gi">>,
       <<"geup", "sang", "seung">>, <<"gong", "gae">>,
       <<"pul", "yeong", "sang">>, <<"pul", "beo", "jeon">>, <<"gong", "sik">> >>

StopWordSet == { stop_words[i] : i \in DOMAIN stop_words }

\* The characters the titles are written with: '#', a space, punctuation,
\* a Latin letter and the two syllables of the first stop word.
TitleChars == {"#", " ", "!", "a", "yeong", "sang"}

Titles == UNION { [1..n -> TitleChars] : n \in 0..MaxTitleLen }

TitleLists == UNION { [1..n -> Titles] : n \in 0..MaxTitles }

\* re.sub(r'[^\w\s#]', '', title)
KeptChar(c) == IsWordChar(c) \/ c = " " \/ c = "#"

CleanTitle(title) == SelectSeq(title, KeptChar)

\* The end of the longest run of word characters that starts at i.
RECURSIVE WordRunEnd(_, _)
WordRunEnd(s, i) ==
    IF i < Len(s) /\ IsWordChar(s[i + 1]) THEN WordRunEnd(s, i + 1) ELSE i

\* The end of the longest run of [\w#] characters that starts at i.
RECURSIVE TokenRunEnd(_, _)
TokenRunEnd(s, i) ==
    IF i < Len(s) /\ IsTokenChar(s[i + 1]) THEN TokenRunEnd(s, i + 1) ELSE i

\* re.findall(r'#(\w+)', s) from position i on: the group of each match.
RECURSIVE FindHashtags(_, _)
FindHashtags(s, i) ==
    IF i > Len(s) THEN <<>>
    ELSE IF s[i] = "#" /\ i < Len(s) /\ IsWordChar(s[i + 1])
         THEN LET e == WordRunEnd(s, i + 1)
              IN  <<SubSeq(s, i + 1, e)>> \o FindHashtags(s, e + 1)
         ELSE FindHashtags(s, i + 1)

\* [ga-hih]{2,} occurs in w.
HasHangulPair(w) ==
    \E i \in 1..(Len(w) - 1) :
        w[i] \in HangulSyllables /\ w[i + 1] \in HangulSyllables

\* re.findall(r'[\w#]*[ga-hih]{2,}[\w#]*', s) from position i on: a match is a
\* whole run of [\w#] characters that holds two Hangul syllables in a row.
RECURSIVE FindKoreanWords(_, _)
FindKoreanWords(s, i) ==
    IF i > Len(s) THEN <<>>
    ELSE IF IsTokenChar(s[i])
         THEN LET e == TokenRunEnd(s, i)
                  w == SubSeq(s, i, e)
              IN  (IF HasHangulPair(w) THEN <<w>> ELSE <<>>)
                      \o FindKoreanWords(s, e + 1)
         ELSE FindKoreanWords(s, i + 1)

\* The words of the loop over the titles, hashtags before Korean words.
RECURSIVE ExtractWords(_)
ExtractWords(ts) ==
    IF ts = <<>> THEN <<>>
    ELSE LET clean_title == CleanTitle(ts[Len(ts)])
         IN  ExtractWords(SubSeq(ts, 1, Len(ts) - 1))
                 \o FindHashtags(clean_title, 1)
                 \o FindKoreanWords(clean_title, 1)

KeptWord(word) == word \notin StopWordSet /\ Len(word) > 1

CountOf(words, w) == Cardinality({ i \in DOMAIN words : words[i] = w })

\* The keys of Counter(words), in the order of their first occurrence.
RECURSIVE Distinct(_)
Distinct(words) ==
    IF words = <<>> THEN <<>>
    ELSE LET front == Distinct(SubSeq(words, 1, Len(words) - 1))
             last == words[Len(words)]
         IN  IF \E i \in DOMAIN front : front[i] = last
             THEN front ELSE Append(front, last)

\* Counter.most_common(n): by count, descending; ties in insertion order.
RECURSIVE MostCommon(_, _, _)
MostCommon(words, keys, n) ==
    IF n <= 0 \/ keys = <<>> THEN <<>>
    ELSE LET best == CHOOSE i \in DOMAIN keys :
                        /\ \A j \in DOMAIN keys :
                               CountOf(words, keys[j]) <= CountOf(words, keys[i])
                        /\ \A j \in 1..(i - 1) :
                               CountOf(words, keys[j]) < CountOf(words, keys[i])
             rest == [j \in 1..(Len(keys) - 1) |->
                         IF j < best THEN keys[j] ELSE keys[j + 1]]
         IN  <<keys[best]>> \o MostCommon(words, rest, n - 1)

Hashtag(word) == <<"#">> \o word

extract_common_keywords(ts, n) ==
    IF ts = <<>> THEN <<>>
    ELSE LET filtered_words == SelectSeq(ExtractWords(ts), KeptWord)
             common == MostCommon(filtered_words, Distinct(filtered_words), n)
         IN  [i \in DOMAIN common |-> Hashtag(common[i])]

KeywordInit ==
    /\ titles \in TitleLists
    /\ top_n \in 0..MaxTopN
    /\ keywords = <<>>
    /\ kw_pc = "call"

CallExtractCommonKeywords ==
    /\ kw_pc = "call"
    /\ keywords' = extract_common_keywords(titles, top_n)
    /\ kw_pc' = "returned"
    /\ UNCHANGED <<titles, top_n>>
    /\ UNCHANGED notKeywordVars

-----------------------------------------------------------------------------
(* calculate_absolute_index, calculate_bti, calculate_combined_index and the
   tab2 flow that calls them *)

\* A pandas value: a number, or what a division by zero leaves.
Num(r) == [kind |-> "num", v |-> r]
Inf == [kind |-> "inf"]
NaN == [kind |-> "nan"]

RatioSeries(maxlen) == UNION { [1..n -> 0..MaxRatio] : n \in 1..maxlen }

RefLists == UNION { [1..n -> RatioSeries(MaxRefPoints)] : n \in 0..MaxRefs }

ScValues == {RInt(0), RInt(5), RInt(10)}

\* Series.max()
RECURSIVE SeriesMax(_)
SeriesMax(ratios) ==
    IF Len(ratios) = 1 THEN ratios[1]
    ELSE Max(SeriesMax(SubSeq(ratios, 1, Len(ratios) - 1)), ratios[Len(ratios)])

\* The loop over ref_data_list, from ref_max = 0.
RECURSIVE RefMax(_)
RefMax(refs) ==
    IF refs = <<>> THEN 0
    ELSE Max(RefMax(SubSeq(refs, 1, Len(refs) - 1)), SeriesMax(refs[Len(refs)]))

\* One element of (Series / ref_max) * 100: pandas divides by zero to inf,
\* and zero by zero to NaN, without raising.
ScaledRatio(ratio, ref_max) ==
    IF ref_max # 0 THEN Num(Rat(ratio * 100, ref_max))
    ELSE IF ratio > 0 THEN Inf ELSE NaN

calculate_absolute_index(main_data, refs) ==
    LET ref_max == RefMax(refs)
    IN  [i \in DOMAIN main_data |-> ScaledRatio(main_data[i], ref_max)]

calculate_bti(naver_abs_index) == naver_abs_index

\* Series.tail(n)
SeriesTail(series, n) ==
    IF n >= Len(series) THEN series
    ELSE SubSeq(series, Len(series) - n + 1, Len(series))

RECURSIVE SumNums(_)
SumNums(series) ==
    IF series = <<>> THEN RInt(0)
    ELSE LET x == series[Len(series)]
             front == SumNums(SubSeq(series, 1, Len(series) - 1))
         IN  IF x.kind = "num" THEN RAdd(front, x.v) ELSE front

\* Series.mean(): NaN is skipped; inf makes the mean inf.
SeriesMean(series) ==
    LET present == SelectSeq(series, LAMBDA x : x.kind # "nan")
    IN  IF present = <<>> THEN NaN
        ELSE IF \E i \in DOMAIN present : present[i].kind = "inf" THEN Inf
        ELSE Num(RDivInt(SumNums(present), Len(present)))

\* (sc_value * 10.0 + avg_bti) / 2.0
Blend(sc, avg_bti) ==
    IF avg_bti.kind = "num"
    THEN Num(RDivInt(RAdd(RMulInt(sc, 10), avg_bti.v), 2))
    ELSE avg_bti

calculate_combined_index(sc, bti) ==
    Blend(sc, SeriesMean(SeriesTail(bti, Len(bti))))

TrendInit ==
    /\ days_back \in 1..MaxDaysBack
    /\ sc_value \in ScValues
    /\ main_ratio \in RatioSeries(MaxPoints)
    /\ ref_data_list \in RefLists
    /\ abs_index = <<>>
    /\ shown_mean = NaN
    /\ combined_index = NaN
    /\ trend_pc = "fetched"

\* main_df['abs_index'] = ...; main_df['bti'] = calculate_bti(...)
ComputeBti ==
    /\ trend_pc = "fetched"
    /\ abs_index' = calculate_bti(calculate_absolute_index(main_ratio, ref_data_list))
    /\ trend_pc' = "indexed"
    /\ UNCHANGED <<days_back, sc_value, main_ratio, ref_data_list, shown_mean,
                   combined_index>>
    /\ UNCHANGED notTrendVars

\* st.metric: main_df['bti'].tail(days_back).mean()
ShowWindowMean ==
    /\ trend_pc = "indexed"
    /\ shown_mean' = SeriesMean(SeriesTail(abs_index, days_back))
    /\ trend_pc' = "shown"
    /\ UNCHANGED <<days_back, sc_value, main_ratio, ref_data_list, abs_index,
                   combined_index>>
    /\ UNCHANGED notTrendVars

\* combined_index = calculate_combined_index(result['spread_coefficient'], main_df)
ComputeCombinedIndex ==
    /\ trend_pc = "shown"
    /\ combined_index' = calculate_combined_index(sc_value, abs_index)
    /\ trend_pc' = "done"
    /\ UNCHANGED <<days_back, sc_value, main_ratio, ref_data_list, abs_index,
                   shown_mean>>
    /\ UNCHANGED notTrendVars

-----------------------------------------------------------------------------
(* Specifications: one per part of the program; the other parts stay parked *)

SearchParked ==
    /\ pc = "parked"
    /\ max_results = 0
    /\ remaining_results = 0
    /\ next_page_token = FALSE
    /\ video_ids = <<>>
    /\ videos = <<>>
    /\ batch_i = 0
    /\ returned = <<>>
    /\ outcome = "none"
    /\ trace = <<>>
    /\ requested = <<>>
    /\ delivered = <<>>
    /\ search_failed = FALSE
    /\ details_failed = FALSE

KeywordParked ==
    /\ kw_pc = "parked"
    /\ titles = <<>>
    /\ top_n = 0
    /\ keywords = <<>>

TrendParked ==
    /\ trend_pc = "parked"
    /\ days_back = 1
    /\ sc_value = RInt(0)
    /\ main_ratio = <<>>
    /\ ref_data_list = <<>>
    /\ abs_index = <<>>
    /\ shown_mean = NaN
    /\ combined_index = NaN

InitSpread == SpreadInit /\ SearchParked /\ KeywordParked /\ TrendParked

SpreadNext == CallSpreadCoefficient

SpecSpread == InitSpread /\ [][SpreadNext]_vars

InitSearch == SearchInit /\ SpreadInit /\ KeywordParked /\ TrendParked

SearchNext ==
    \/ SearchPage
    \/ SearchPageFails
    \/ SearchLoopEnds
    \/ CountVideoIds
    \/ DetailsBatch
    \/ DetailsBatchFails
    \/ ReturnVideos
    \/ AnalyzeKeywordSpread

SpecSearch == InitSearch /\ [][SearchNext]_vars

InitKeywords == KeywordInit /\ SpreadInit /\ SearchParked /\ TrendParked

KeywordNext == CallExtractCommonKeywords

SpecKeywords == InitKeywords /\ [][KeywordNext]_vars

InitTrend == TrendInit /\ SpreadInit /\ SearchParked /\ KeywordParked

TrendNext ==
    \/ ComputeBti
    \/ ShowWindowMean
    \/ ComputeCombinedIndex

SpecTrend == InitTrend /\ [][TrendNext]_vars

-----------------------------------------------------------------------------
(* Properties *)

Score == sc_result.spread_coefficient

AvgWeighted == sc_result.avg_weighted

\* C1: for every list of video records, the empty one included, the spread
\* coefficient lies in [0, 10]; it is exactly 0 when the average weighted
\* views are 1000 or less and exactly 10 when they are 5,000,000 or more.
C1_SpreadCoefficientInRange ==
    sc_result.status # "not called" =>
        /\ sc_result.status = "returned"
        /\ RLe(RInt(0), Score)
        /\ RLe(Score, RInt(10))
        /\ RLe(AvgWeighted, RInt(1000)) => Score = RInt(0)
        /\ RLe(RInt(5000000), AvgWeighted) => Score = RInt(10)

\* A call that took the log branch and scored strictly between 0 and 10.
C1_LogBranchScored ==
    /\ sc_result.status = "returned"
    /\ RLt(RInt(1000), AvgWeighted)
    /\ RLt(AvgWeighted, RInt(5000000))
    /\ RLt(RInt(0), Score)
    /\ RLt(Score, RInt(10))

\* 20 * viewCount * (1 + e), with e = 0 for no views and
\* e = min(0.45, (likeCount + commentCount) / viewCount) otherwise.
RECURSIVE WeightedTimes20(_)
WeightedTimes20(vs) ==
    IF vs = <<>> THEN 0
    ELSE LET video == vs[Len(vs)]
         IN  WeightedTimes20(SubSeq(vs, 1, Len(vs) - 1))
                 + 20 * video.viewCount
                 + Min(9 * video.viewCount,
                       20 * (video.likeCount + video.commentCount))

\* C5: for every non-empty list, the average weighted views are the sum of
\* viewCount * (1 + e) over the count, e capped at 0.45, so that
\* avg_views <= avg_weighted <= 1.45 * avg_views whatever the likes and comments.
C5_WeightedAverageCapped ==
    (sc_result.status # "not called" /\ sc_videos # <<>>) =>
        /\ sc_result.status = "returned"
        /\ RMulInt(AvgWeighted, Len(sc_videos))
               = Rat(WeightedTimes20(sc_videos), 20)
        /\ sc_result.avg_views
               = Rat(sc_result.total_views, Len(sc_videos))
        /\ RLe(sc_result.avg_views, AvgWeighted)
        /\ RLe(AvgWeighted, RDivInt(RMulInt(sc_result.avg_views, 29), 20))

\* A call on two or more records, one of them with more likes and comments
\* than 0.45 of its views, and one under the cap with some engagement.
C5_CapApplied ==
    /\ sc_result.status = "returned"
    /\ Len(sc_videos) >= 2
    /\ \E i \in DOMAIN sc_videos :
           /\ sc_videos[i].viewCount > 0
           /\ sc_videos[i].likeCount + sc_videos[i].commentCount
                  > sc_videos[i].viewCount
    /\ \E i \in DOMAIN sc_videos :
           /\ sc_videos[i].likeCount + sc_videos[i].commentCount > 0
           /\ 20 * (sc_videos[i].likeCount + sc_videos[i].commentCount)
                  < 9 * sc_videos[i].viewCount

\* C6: on the empty list the call returns the all-zero result as a normal
\* value; it does not raise on the zero video count.
C6_EmptyListIsAllZero ==
    (sc_result.status # "not called" /\ sc_videos = <<>>) =>
        sc_result = [status |-> "returned", spread_coefficient |-> RInt(0),
                     avg_weighted |-> RInt(0), total_views |-> 0,
                     avg_views |-> RInt(0)]

\* The function was called on the empty list and returned.
C6_CalledOnEmptyList ==
    sc_videos = <<>> /\ sc_result.status = "returned"

\* C7: the spread coefficient is monotonic non-decreasing in the average
\* weighted views: of any two calls, the one with the smaller average does
\* not score higher, also across the thresholds 1000 and 5,000,000.
C7_ScoreMonotonic ==
    [][(/\ sc_result.status = "returned"
        /\ sc_result'.status = "returned"
        /\ RLe(sc_result.avg_weighted, sc_result'.avg_weighted))
       => RLe(sc_result.spread_coefficient, sc_result'.spread_coefficient)]_vars

\* A call in the upper half of the log range, which scores above the calls
\* under the low threshold and below the saturated ones.
C7_UpperLogRange ==
    /\ sc_result.status = "returned"
    /\ Len(sc_videos) >= 2
    /\ RLt(AvgWeighted, RInt(SaturationViews))
    /\ RLt(RInt(5), Score)
    /\ RLt(Score, RInt(10))

CeilDiv(a, b) == (a + b - 1) \div b

RECURSIVE SumSeq(_)
SumSeq(q) == IF q = <<>> THEN 0 ELSE q[1] + SumSeq(Tail(q))

\* C4: a failed search page or details batch ends its phase, and the
\* function returns exactly the records of the batches that succeeded;
\* with nothing gathered the result is the empty list, which
\* analyze_keyword_spread reports as "no videos found".
C4_PartialResultsReturned ==
    /\ search_failed => pc # "search"
    /\ details_failed => pc # "details"
    /\ pc \in {"returned", "done"} => returned = delivered
    /\ pc = "done" =>
           /\ returned = <<>> => outcome = "error: no videos found"
           /\ returned # <<>> => outcome = "result"

\* A run in which a search page failed and later a details batch failed,
\* and which returned the records of the batches before it.
C4_FailedWithPartialResults ==
    /\ pc = "done"
    /\ search_failed
    /\ details_failed
    /\ returned # <<>>
    /\ Len(returned) < Len(video_ids)

\* C8: within one run, every two consecutive calls of the video service
\* are separated by the inter-call sleep.
C8_CallsSeparatedBySleep ==
    \A i \in 1..(Len(trace) - 1) :
        trace[i] # "sleep" => trace[i + 1] = "sleep"

\* C10: the search loop makes at most ceil(max_results / 50) calls, each
\* for at most 50 results, for at most max_results results in all; with no
\* page larger than asked for, at most max_results ids are gathered.
C10_SearchLoopBounded ==
    /\ Len(requested) <= CeilDiv(max_results, 50)
    /\ \A i \in DOMAIN requested : requested[i] >= 1 /\ requested[i] <= 50
    /\ SumSeq(requested) <= max_results
    /\ Len(video_ids) <= max_results
    /\ (pc = "search" /\ Len(requested) = CeilDiv(max_results, 50))
           => remaining_results <= 0

\* A run that made every call the bound allows, over several full pages.
C10_AllPagesFull ==
    /\ pc = "count"
    /\ Len(requested) >= 3
    /\ Len(requested) = CeilDiv(max_results, 50)
    /\ Len(video_ids) = max_results

\* A word without the '#' characters it starts with.
RECURSIVE StripHashes(_)
StripHashes(w) ==
    IF w # <<>> /\ w[1] = "#" THEN StripHashes(Tail(w)) ELSE w

\* C9: every returned string is '#' followed by a token that is longer
\* than one character and is not a stop word, whether the title had the
\* word plain or as a '#'-prefixed hashtag.
C9_NoStopWordInOutput ==
    kw_pc = "returned" =>
        \A i \in DOMAIN keywords :
            LET token == Tail(keywords[i])
            IN  /\ keywords[i][1] = "#"
                /\ Len(token) > 1
                /\ token \notin StopWordSet
                /\ Len(StripHashes(token)) > 1
                /\ StripHashes(token) \notin StopWordSet

\* C2: calculate_absolute_index returns no infinite or NaN index: it
\* returns a value only when the reference maximum is not zero.
C2_IndexNeverUndefined ==
    trend_pc \in {"indexed", "shown", "done"} =>
        /\ RefMax(ref_data_list) # 0
        /\ \A i \in DOMAIN abs_index : abs_index[i].kind = "num"

\* C3: the combined index uses the mean of the BTI over the last days_back
\* points only, the mean shown for the same lookback.
C3_CombinedUsesWindowMean ==
    trend_pc = "done" =>
        /\ combined_index
               = Blend(sc_value, SeriesMean(SeriesTail(abs_index, days_back)))
        /\ combined_index = Blend(sc_value, shown_mean)

=============================================================================
